---- MODULE Spec2Model ----
(***************************************************************************)
(* The Html5 engine facade (src/engines/html5/html5.js, class Html5) and   *)
(* the NativeAdapter it drives (same file, class NativeAdapter), modelled  *)
(* as a state machine over the platform video element ("the sink").        *)
(*                                                                         *)
(* Eight specifications share the variables:                               *)
(*   Spec        load, video track selection, play/pause, destroy and the  *)
(*               sink signals loadeddata, error, durationchange, seeked;   *)
(*   TextSpec    text-track selection, hideTextTrack, cuechange, destroy;  *)
(*   LifeSpec    attach, detach and destroy of the Facade and the Adapter; *)
(*   DrmSpec     canPlayType, canPlayDrm and the static DRM protocol;      *)
(*   FacadeSpec  the delegating calls, with and without an Adapter;        *)
(*   LiveSpec    isLive, the live edge and the duration getter;            *)
(*   SwitchSpec  progressive video switches, overlapping or not;           *)
(*   SettleSpec  load and destroy with a sink that answers every load      *)
(*               (the one specification with a fairness condition).        *)
(* Each part reads and writes little of the others' state (destroy         *)
(* apart), so the parts are explored separately.                           *)
(*                                                                         *)
(* Every action rewrites `step`, a record describing the call or signal    *)
(* that was just handled: its inputs, what it returned, the sink calls the *)
(* Adapter made and the events it emitted while handling it.               *)
(***************************************************************************)
EXTENDS Integers, Sequences, FiniteSets, TLC

VARIABLES
  hasAdapter,              \* Html5._mediaSourceAdapter is non-null
  isAndroid,               \* Env.browser.name === 'Android Browser'
  useNativeTextTrack,      \* Html5._config.playback.useNativeTextTrack
  source,                  \* the source the Adapter was constructed with
  el,                      \* the video element: src, currentTime, paused, ...
  sourceObj,               \* NativeAdapter._sourceObj
  progressiveSources,      \* NativeAdapter._progressiveSources
  loadPromise,             \* NativeAdapter._loadPromise (0 = null, else a handle)
  promises,                \* every promise load() has created, by handle
  listeners,               \* NativeAdapter._eventManager: one-shot listeners
  videoSelected,           \* el.videoTracks[i].selected
  audioEnabled,            \* el.audioTracks[i].enabled
  textMode,                \* el.textTracks[i].mode
  oncuechange,             \* el.textTracks[i].oncuechange is set
  showTextTrackFirstTime,  \* Html5._showTextTrackFirstTime (the indices set)
  cuePending,              \* a cuechange event for track i is queued, not yet dispatched
  bindings,                \* Html5._eventManager: number of listeners per event
  drmProtocol,             \* NativeAdapter._drmProtocol (static; 0 = null)
  drmPlayback,             \* per Adapter: the protocol its playback was set up with
  activated,               \* history: indices Html5.selectTextTrack activated
  quiet,                   \* history: the switch in flight has run undisturbed
  step                     \* the call or signal handled last

vars == <<hasAdapter, isAndroid, useNativeTextTrack, source, el, sourceObj,
          progressiveSources, loadPromise, promises, listeners, videoSelected,
          audioEnabled, textMode, oncuechange, showTextTrackFirstTime,
          cuePending, bindings, drmProtocol, drmPlayback, activated, quiet,
          step>>

configVars == <<hasAdapter, isAndroid, useNativeTextTrack, source>>
textVars == <<textMode, oncuechange, showTextTrackFirstTime, cuePending,
              activated>>
drmVars == <<drmProtocol, drmPlayback>>
trackVars == <<videoSelected, audioEnabled>>

-----------------------------------------------------------------------------
(* Bounds of the model.                                                    *)

NumVariants == 2       \* progressive variants in config.sources.progressive
NumTracks == 2         \* length of the platform's video and audio track lists
NumTextTracks == 2     \* length of the platform's text track list
MaxTime == 1           \* playback positions are 0..MaxTime
MaxListeners == 2      \* one-shot listeners registered at once
MaxHandles == 2        \* promises load() creates in one run
MaxCues == 2           \* cues active on a text track at once
MaxBindings == 2       \* listeners the Facade holds for one event
NumProtocols == 2      \* protocols in NativeAdapter._drmProtocols
NumAdapters == 2       \* Adapter instances alive at once

-----------------------------------------------------------------------------
(* Values.                                                                 *)

NoUrl == <<>>
Url(i) == <<"url", i>>

\* null, for _sourceObj
NoSource == [id |-> -1, url |-> NoUrl, mimetype |-> "", width |-> 0, height |-> 0]

\* The i-th entry of config.sources.progressive: ids are distinct, and the
\* resolution grows with i.
Variant(i) ==
  [id |-> i, url |-> Url(i), mimetype |-> "video/mp4", width |-> i, height |-> i]

\* A source of any other mimetype (native hls).
AdaptiveSource ==
  [id |-> 0, url |-> Url(0), mimetype |-> "application/x-mpegURL",
   width |-> 0, height |-> 0]

Variants == [i \in 1..NumVariants |-> Variant(i)]

\* Track objects handed to the select calls: `type` is the class the object
\* is an instance of, `index` may lie outside the list it is used on.
Track(type, index, kind) == [type |-> type, index |-> index, kind |-> kind]

\* (For video and audio: every index of the list, the first index past it,
\* and an object of the wrong class.)
VideoTrackArgs ==
  {Track("video", i, "") : i \in 0..NumVariants} \cup {Track("audio", 0, "")}
AudioTrackArgs ==
  {Track("audio", i, "") : i \in 0..NumTracks} \cup {Track("video", 0, "")}
\* (For text: every index and the first past the list, with each kind, and
\* an object of the wrong class.)
TextTrackArgs ==
  {Track("text", i, k) : i \in 0..NumTextTracks,
                         k \in {"subtitles", "captions", "metadata"}}
    \cup {Track("video", 0, "")}

\* The kind the platform reports for text track i.
TextKind(i) ==
  IF i % 3 = 2 THEN "metadata" ELSE IF i % 3 = 0 THEN "subtitles" ELSE "captions"

Event(type, track) == [type |-> type, track |-> track]

NoTrack == Track("", -1, "")

\* The events the Facade re-dispatches: the sink's lifecycle signals
\* (Html5Events; two of them stand for the list) and the five CustomEvents
\* it listens to on the Adapter.
SinkEvents == {"play", "error"}
AdapterEvents ==
  {"videotrackchanged", "audiotrackchanged", "texttrackchanged",
   "abrmodechanged", "textcuechanged"}
FacadeEvents == SinkEvents \cup AdapterEvents

\* The Adapter instances: 1 is the one the engine drives.
Adapters == 1..NumAdapters

\* A call comes through the Facade or goes to the Adapter directly.
Vias == {"facade", "adapter"}

\* A one-shot listener of the Adapter's event manager: the signal it waits
\* for, the callback, and what the callback's closure captured.
Listener(ev, fn, h, track, time, paused) ==
  [ev |-> ev, fn |-> fn, h |-> h, track |-> track, time |-> time,
   paused |-> paused]

\* A track as an enumeration reports it.
Parsed(type, index, active, kind) ==
  [type |-> type, index |-> index, active |-> active, kind |-> kind]

\* `step` when nothing of note happened; the actions override the fields
\* they have something to say about.
\*   op, via   the operation, and whether it came through the Facade (via
\*             is left blank where the Facade only delegates)
\*   ok        the call was accepted (passed the guards of the code)
\*   arg       the track passed to a select call
\*   ret, memo the handle load() returned, and _loadPromise before the step
\*   calls     the sink calls the Adapter made, in order
\*   facade    the sink calls the Facade made itself, in order
\*   events    the events the Adapter (or the Facade's cue handler) emitted
\*   fired     the one-shot listeners the signal ran, in order
\*   width, height  the sink's rendered size read by load()
\*   sel       the text track that was selected before the call (-1: none)
\*   first     the Facade had not activated the text track before
\*   shown     _showTextTrackFirstTime before a text-track step
\*   pre       the state a rejected select call started from
\*   who       the Adapter instance a DRM step is about
\*   drm       NativeAdapter._drmProtocol before the step
\*   out       what a query or probe returned (the active cues, for a
\*             cuechange)
\*   support   for canPlayDrm: what each protocol's own canPlayDrm does
\*   prev      for attach and destroy: the lifecycle call (attach, detach,
\*             destroy, with its via) handled right before, if any
\*   ev, times the event that occurred and how many times the Facade
\*             re-dispatched it
\*   at        for each event a callback emitted: the sink's paused flag at
\*             the moment of emission, as a listener of the event reads it
NoStep ==
  [op |-> "init", via |-> "", ok |-> FALSE, arg |-> NoTrack, ret |-> 0,
   memo |-> 0, calls |-> <<>>, events |-> <<>>, fired |-> <<>>,
   facade |-> <<>>, width |-> 0, height |-> 0, sel |-> -1, first |-> FALSE,
   shown |-> {}, pre |-> <<>>, who |-> 0, drm |-> 0, out |-> <<>>,
   support |-> <<>>, prev |-> <<>>, ev |-> "", times |-> 0, at |-> <<>>]

-----------------------------------------------------------------------------
(* The sink: what the platform's media element does with the calls made on *)
(* it (HTML media element semantics).                                      *)

\* The duration the sink reports: not a number before metadata is known,
\* a number of seconds, or unbounded (Infinity) for a live stream.
NaN == [nan |-> TRUE, unbounded |-> FALSE, secs |-> 0]
Infinity == [nan |-> FALSE, unbounded |-> TRUE, secs |-> 0]
Finite(n) == [nan |-> FALSE, unbounded |-> FALSE, secs |-> n]

\* TimeRanges (seekable, buffered): a list of ranges in ascending order.
Range(a, b) == [start |-> a, end |-> b]
RangeLists ==
  {<<>>, <<Range(0, 0)>>, <<Range(0, 0), Range(MaxTime, MaxTime)>>}

\* The media element load algorithm, run by load() and by setting src:
\* a pending seek is dropped, the position returns to 0, duration and
\* ranges are forgotten and, unless the element was empty, it is paused.
ElLoadAlgorithm(e) ==
  [e EXCEPT !.network = IF e.src = NoUrl THEN "empty" ELSE "loading",
            !.seeking = FALSE,
            !.currentTime = 0,
            !.written = -1,
            !.duration = NaN,
            !.seekable = <<>>,
            !.buffered = <<>>,
            !.paused = IF e.network = "empty" THEN e.paused ELSE TRUE]

ElSetSrc(e, url) == ElLoadAlgorithm([e EXCEPT !.src = url])

ElLoad(e) == ElLoadAlgorithm(e)

ElPlay(e) == [e EXCEPT !.paused = FALSE]

ElPause(e) == [e EXCEPT !.paused = TRUE]

\* Writing currentTime: a seek when media is loaded (seeked follows), the
\* start position otherwise. `written` remembers the last value written
\* since the load algorithm last ran (-1: none).
ElSetCurrentTime(e, t) ==
  [e EXCEPT !.currentTime = t, !.written = t,
            !.seeking = (e.network = "loaded")]

-----------------------------------------------------------------------------
(* NativeAdapter: pure parts.                                              *)

_isProgressivePlayback(src) ==
  IF src # NoSource THEN src.mimetype = "video/mp4" ELSE FALSE

\* utils/resolution: the highest-resolution variant not exceeding the sink's
\* width and height; if none fits, the lowest variant; null for no variants.
getSuitableSourceForResolution(tracks, width, height) ==
  LET idx == DOMAIN tracks
      fits == {i \in idx : tracks[i].width <= width /\ tracks[i].height <= height}
      best(S, better(_, _)) ==
        CHOOSE i \in S : \A j \in S :
          \/ better(tracks[i], tracks[j])
          \/ (~better(tracks[j], tracks[i]) /\ i <= j)
      higher(a, b) == a.width > b.width \/ (a.width = b.width /\ a.height > b.height)
      lower(a, b) == higher(b, a)
  IN  IF idx = {} THEN NoSource
      ELSE IF fits # {} THEN tracks[best(fits, higher)]
      ELSE tracks[best(idx, lower)]

\* A variant of _setProgressiveSource that keeps the source it was given.
_setProgressiveSourceKeeps(src, tracks, width, height) == src

_setProgressiveSource(src, tracks, width, height) ==
  LET suitableTrack == getSuitableSourceForResolution(tracks, width, height)
  IN  IF suitableTrack # NoSource THEN suitableTrack ELSE src

\* A variant of the next enumeration that marks the first variant active.
_getParsedProgressiveVideoTracksFirst(src, tracks) ==
  [i \in 1..Len(tracks) |-> Parsed("video", i - 1, i = 1, "")]

_getParsedProgressiveVideoTracks(src, tracks) ==
  [i \in 1..Len(tracks) |->
     Parsed("video", i - 1,
            IF src # NoSource THEN tracks[i].id = src.id ELSE FALSE, "")]

_getParsedAdaptiveVideoTracks(selected) ==
  [i \in 1..NumTracks |-> Parsed("video", i - 1, selected[i - 1], "")]

_getParsedVideoTracks(src, tracks, selected) ==
  IF _isProgressivePlayback(src)
  THEN _getParsedProgressiveVideoTracks(src, tracks)
  ELSE _getParsedAdaptiveVideoTracks(selected)

_getParsedAudioTracks(enabled) ==
  [i \in 1..NumTracks |-> Parsed("audio", i - 1, enabled[i - 1], "")]

_getParsedTextTracks(mode) ==
  [i \in 1..NumTextTracks |->
     Parsed("text", i - 1, mode[i - 1] = "showing", TextKind(i - 1))]

_getParsedTracks(src, tracks, selected, enabled, mode) ==
  _getParsedVideoTracks(src, tracks, selected)
    \o _getParsedAudioTracks(enabled) \o _getParsedTextTracks(mode)

\* What an enumeration would report in the current state.
ParsedNow ==
  _getParsedTracks(sourceObj, progressiveSources, videoSelected, audioEnabled,
                   textMode)

\* BaseMediaSourceAdapter._onTrackChanged: the event named after the class
\* of the track, carrying the track.
_onTrackChanged(track) ==
  Event(CASE track.type = "video" -> "videotrackchanged"
          [] track.type = "audio" -> "audiotrackchanged"
          [] track.type = "text" -> "texttrackchanged"
          [] OTHER -> "none", track)

-----------------------------------------------------------------------------
(* Promises (platform): a settled promise ignores resolve and reject.      *)

Pending == [state |-> "pending", value |-> <<>>]

Settle(ps, h, state, value) ==
  IF ps[h].state = "pending"
  THEN [ps EXCEPT ![h] = [state |-> state, value |-> value]]
  ELSE ps

-----------------------------------------------------------------------------
(* NativeAdapter: the callbacks of its one-shot listeners.  A callback     *)
(* works on st, the part of the state a callback can change:               *)
(*   el, promises, added (listeners it registers), events, calls, and at   *)
(*   (the sink's paused flag at each emission).                            *)

SwitchFns == {"switch", "seek", "changed", "changedQuirk"}

\* load(): the loadeddata callback resolves with the tracks parsed now.
OnLoadResolve(l, st, tracks) ==
  [st EXCEPT !.promises = Settle(@, l.h, "resolved", tracks)]

\* A variant of the next callback that resolves with the error.
OnLoadRejectResolves(l, st) ==
  [st EXCEPT !.promises = Settle(@, l.h, "resolved", <<"error">>)]

\* load(): the error callback rejects with the error.
OnLoadReject(l, st) ==
  [st EXCEPT !.promises = Settle(@, l.h, "rejected", <<"error">>)]

\* A variant of the next callback that restores the paused state at once.
OnSwitchLoadedDataEager(l, st) ==
  IF isAndroid
  THEN [st EXCEPT
          !.added = @ \o <<Listener("durationchange", "seek", 0, l.track, l.time, l.paused),
                           Listener("seeked", "changedQuirk", 0, l.track, l.time, l.paused)>>,
          !.el = IF l.paused THEN ElPause(ElPlay(@)) ELSE ElPlay(@),
          !.calls = @ \o (IF l.paused THEN <<"play", "pause">> ELSE <<"play">>)]
  ELSE [st EXCEPT
          !.added = @ \o <<Listener("seeked", "changed", 0, l.track, l.time, l.paused)>>,
          !.el = IF l.paused THEN ElPause(ElSetCurrentTime(@, l.time))
                 ELSE ElPlay(ElSetCurrentTime(@, l.time)),
          !.calls = @ \o (IF l.paused THEN <<"seek", "pause">> ELSE <<"seek", "play">>)]

\* _selectProgressiveVideoTrack: the loadeddata callback.  On Android it
\* waits for durationchange before it seeks and starts playback meanwhile;
\* elsewhere it seeks at once and resumes playback if it was playing.
OnSwitchLoadedData(l, st) ==
  IF isAndroid
  THEN [st EXCEPT
          !.added = @ \o <<Listener("durationchange", "seek", 0, l.track, l.time, l.paused),
                           Listener("seeked", "changedQuirk", 0, l.track, l.time, l.paused)>>,
          !.el = ElPlay(@),
          !.calls = @ \o <<"play">>]
  ELSE [st EXCEPT
          !.added = @ \o <<Listener("seeked", "changed", 0, l.track, l.time, l.paused)>>,
          !.el = IF l.paused THEN ElSetCurrentTime(@, l.time)
                 ELSE ElPlay(ElSetCurrentTime(@, l.time)),
          !.calls = @ \o (IF l.paused THEN <<"seek">> ELSE <<"seek", "play">>)]

\* A variant of the next callback that seeks to the start.
OnSwitchDurationChangeToStart(l, st) ==
  [st EXCEPT !.el = ElSetCurrentTime(@, 0), !.calls = @ \o <<"seek">>]

\* _selectProgressiveVideoTrack, Android: the durationchange callback seeks
\* to the position captured when the switch began.
OnSwitchDurationChange(l, st) ==
  [st EXCEPT !.el = ElSetCurrentTime(@, l.time), !.calls = @ \o <<"seek">>]

\* A variant of the next callback that leaves the sink playing.
OnSwitchSeekedQuirkNoPause(l, st) ==
  [st EXCEPT !.events = @ \o <<_onTrackChanged(l.track)>>]

\* _selectProgressiveVideoTrack, Android: the seeked callback emits the
\* event and then pauses if the sink was paused when the switch began.
OnSwitchSeekedQuirk(l, st) ==
  [st EXCEPT !.events = @ \o <<_onTrackChanged(l.track)>>,
             !.at = @ \o <<st.el.paused>>,
             !.el = IF l.paused THEN ElPause(@) ELSE @,
             !.calls = @ \o (IF l.paused THEN <<"pause">> ELSE <<>>)]

\* A variant of the next callback that emits the event twice.
OnSwitchSeekedTwice(l, st) ==
  [st EXCEPT !.events = @ \o <<_onTrackChanged(l.track), _onTrackChanged(l.track)>>]

\* _selectProgressiveVideoTrack, other browsers: the seeked callback.
OnSwitchSeeked(l, st) ==
  [st EXCEPT !.events = @ \o <<_onTrackChanged(l.track)>>,
             !.at = @ \o <<st.el.paused>>]

Callback(l, st, tracks) ==
  CASE l.fn = "resolve" -> OnLoadResolve(l, st, tracks)
    [] l.fn = "reject" -> OnLoadReject(l, st)
    [] l.fn = "switch" -> OnSwitchLoadedData(l, st)
    [] l.fn = "seek" -> OnSwitchDurationChange(l, st)
    [] l.fn = "changedQuirk" -> OnSwitchSeekedQuirk(l, st)
    [] l.fn = "changed" -> OnSwitchSeeked(l, st)

\* The listeners of a signal run in the order they were registered.
RECURSIVE RunAll(_, _, _)
RunAll(ls, st, tracks) ==
  IF ls = <<>> THEN st
  ELSE RunAll(Tail(ls), Callback(Head(ls), st, tracks), tracks)

\* EventManager.listenOnce: the listener is dropped when its signal comes.
Waiting(ls, ev) == SelectSeq(ls, LAMBDA l : l.ev = ev)
Others(ls, ev) == SelectSeq(ls, LAMBDA l : l.ev # ev)

SwitchPending == \E i \in 1..Len(listeners) : listeners[i].fn \in SwitchFns

Count(seq, x) == Cardinality({i \in 1..Len(seq) : seq[i] = x})

-----------------------------------------------------------------------------
(* Initial state: the Facade constructed, nothing loaded, no text track    *)
(* enabled, the first video and audio track of the platform lists chosen.  *)

\* Html5.attach on the listener counts b: one more listener for every sink
\* signal and, with an Adapter, for each of the five Adapter events.
attach(b) ==
  [ev \in FacadeEvents |->
     IF ev \in SinkEvents \/ (hasAdapter /\ ev \in AdapterEvents)
     THEN b[ev] + 1 ELSE b[ev]]

\* Html5.detach: unlisten drops every listener of the event; the Adapter
\* events unlistened are four of the five.
detach(b) ==
  [ev \in FacadeEvents |->
     IF ev \in SinkEvents
        \/ (hasAdapter /\ ev \in AdapterEvents \ {"abrmodechanged"})
     THEN 0 ELSE b[ev]]

NoBindings == [ev \in FacadeEvents |-> 0]

NewElement ==
  [src |-> NoUrl, currentTime |-> 0, paused |-> TRUE, seeking |-> FALSE,
   network |-> "empty", written |-> -1,
   duration |-> NaN, seekable |-> <<>>, buffered |-> <<>>]

InitCommon ==
  /\ el = NewElement
  /\ sourceObj = IF hasAdapter THEN source ELSE NoSource
  /\ progressiveSources = IF hasAdapter THEN Variants ELSE <<>>
  /\ loadPromise = 0
  /\ promises = <<>>
  /\ listeners = <<>>
  /\ videoSelected = [i \in 0..(NumTracks - 1) |-> i = 0]
  /\ audioEnabled = [i \in 0..(NumTracks - 1) |-> i = 0]
  /\ textMode = [i \in 0..(NumTextTracks - 1) |-> "disabled"]
  /\ oncuechange = [i \in 0..(NumTextTracks - 1) |-> FALSE]
  /\ showTextTrackFirstTime = {}
  /\ cuePending = [i \in 0..(NumTextTracks - 1) |-> FALSE]
  /\ bindings = attach(NoBindings)
  /\ activated = {}
  /\ quiet = FALSE
  /\ step = NoStep

\* No DRM: canPlayDrm has bound no protocol.
NoDrm ==
  /\ drmProtocol = 0
  /\ drmPlayback = [a \in Adapters |-> 0]

Init ==
  /\ hasAdapter \in BOOLEAN
  /\ isAndroid \in BOOLEAN
  /\ useNativeTextTrack = FALSE
  /\ source \in {Variant(i) : i \in 1..NumVariants} \cup {AdaptiveSource}
  /\ NoDrm
  /\ InitCommon

\* What the select calls must leave alone when they reject their argument.
Snapshot ==
  <<sourceObj, el.src, videoSelected, audioEnabled, textMode, oncuechange,
    showTextTrackFirstTime>>

-----------------------------------------------------------------------------
(* load                                                                    *)

\* A variant of the next test that forgets the memoized handle.
LoadAlwaysFresh(p) == TRUE

\* NativeAdapter.load: `if (!this._loadPromise)`
LoadIsFresh(p) == p = 0

\* Html5.load(startTime) through the Facade, NativeAdapter.load(startTime)
\* directly.  width, height: the sink's rendered size at the time.
Load(via, startTime, width, height) ==
  /\ via = "adapter" => hasAdapter
  /\ LET e0 == IF via = "facade" THEN ElLoad(el) ELSE el
         fresh == hasAdapter /\ LoadIsFresh(loadPromise)
         handle == Len(promises) + 1
         progressive == _isProgressivePlayback(sourceObj)
         src1 == IF progressive
                 THEN _setProgressiveSource(sourceObj, progressiveSources, width, height)
                 ELSE sourceObj
         bind == src1 # NoSource /\ src1.url # NoUrl
         e1 == IF bind THEN ElSetSrc(e0, src1.url) ELSE e0
         e2 == IF startTime # 0 THEN ElSetCurrentTime(e1, startTime) ELSE e1
         e3 == ElLoad(e2)
     IN  IF fresh
         THEN /\ handle <= MaxHandles
              /\ Len(listeners) + 2 <= MaxListeners
              /\ promises' = Append(promises, Pending)
              /\ listeners' = listeners \o
                   <<Listener("loadeddata", "resolve", handle, NoTrack, 0, FALSE),
                     Listener("error", "reject", handle, NoTrack, 0, FALSE)>>
              /\ sourceObj' = src1
              /\ el' = e3
              /\ loadPromise' = handle
              /\ step' = [NoStep EXCEPT
                   !.op = "load", !.via = via, !.ok = TRUE, !.ret = handle,
                   !.memo = loadPromise,
                   !.facade = IF via = "facade" THEN <<"load">> ELSE <<>>,
                   !.calls = (IF bind THEN <<"src">> ELSE <<>>)
                             \o (IF startTime # 0 THEN <<"seek">> ELSE <<>>)
                             \o <<"load">>,
                   !.events = IF bind
                              THEN <<[type |-> "abrmodechanged",
                                      mode |-> IF _isProgressivePlayback(src1)
                                               THEN "manual" ELSE "auto"]>>
                              ELSE <<>>,
                   !.width = IF progressive THEN width ELSE 0,
                   !.height = IF progressive THEN height ELSE 0]
         ELSE /\ width = 0 /\ height = 0 /\ startTime = 0
              /\ el' = e0
              /\ step' = [NoStep EXCEPT
                   !.op = "load", !.via = via, !.ok = hasAdapter,
                   !.ret = IF hasAdapter THEN loadPromise ELSE -1,
                   !.memo = loadPromise,
                   !.facade = IF via = "facade" THEN <<"load">> ELSE <<>>]
              /\ UNCHANGED <<promises, listeners, sourceObj, loadPromise>>
  /\ quiet' = FALSE
  /\ UNCHANGED <<configVars, bindings, drmVars,
                 progressiveSources, trackVars, textVars>>

-----------------------------------------------------------------------------
(* selectVideoTrack, selectAudioTrack                                      *)

ProgressiveTrackAccepted(track, tracks) ==
  track.type = "video" /\ (track.index + 1) \in DOMAIN tracks

AdaptiveTrackAccepted(track) ==
  track.type = "video" /\ track.index \in 0..(NumTracks - 1)

AudioTrackAccepted(track) ==
  track.type = "audio" /\ track.index \in 0..(NumTracks - 1)

\* A variant of the next operator that passes over the first track when it
\* clears the flags.
OnlyTrackAndFirst(index) == [i \in 0..(NumTracks - 1) |-> i = index \/ i = 0]

\* _disableVideoTracks / _disableAudioTracks, then the flag of one track set
OnlyTrack(index) == [i \in 0..(NumTracks - 1) |-> i = index]

\* A select call that changes nothing: only the state it started from is
\* recorded.
Rejected(op) ==
  [NoStep EXCEPT !.op = op, !.memo = loadPromise, !.pre = Snapshot]

\* Html5.selectVideoTrack (a no-op without an Adapter), which only delegates
\* to NativeAdapter.selectVideoTrack: a direct call is the same step.
SelectVideoTrack(track) ==
  /\ quiet' = (hasAdapter /\ _isProgressivePlayback(sourceObj)
               /\ ProgressiveTrackAccepted(track, progressiveSources)
               /\ ~SwitchPending)
  /\ IF ~hasAdapter
     THEN /\ step' = Rejected("selectVideoTrack")
          /\ UNCHANGED <<el, sourceObj, listeners, videoSelected>>
     ELSE IF _isProgressivePlayback(sourceObj)
     THEN \* _selectProgressiveVideoTrack
          IF ProgressiveTrackAccepted(track, progressiveSources)
          THEN /\ Len(listeners) < MaxListeners
               /\ sourceObj' = progressiveSources[track.index + 1]
               /\ listeners' = Append(listeners,
                    Listener("loadeddata", "switch", 0, track, el.currentTime,
                             el.paused))
               /\ el' = ElSetSrc(el, sourceObj'.url)
               /\ step' = [NoStep EXCEPT
                    !.op = "selectVideoTrack", !.ok = TRUE, !.arg = track,
                    !.memo = loadPromise, !.calls = <<"src">>]
               /\ UNCHANGED videoSelected
          ELSE /\ step' = Rejected("selectVideoTrack")
               /\ UNCHANGED <<el, sourceObj, listeners, videoSelected>>
     ELSE \* selectAdaptiveVideoTrack
          IF AdaptiveTrackAccepted(track)
          THEN /\ videoSelected' = OnlyTrack(track.index)
               /\ step' = [NoStep EXCEPT
                    !.op = "selectVideoTrack", !.ok = TRUE, !.arg = track,
                    !.memo = loadPromise,
                    !.events = <<_onTrackChanged(track)>>]
               /\ UNCHANGED <<el, sourceObj, listeners>>
          ELSE /\ step' = Rejected("selectVideoTrack")
               /\ UNCHANGED <<el, sourceObj, listeners, videoSelected>>
  /\ UNCHANGED <<configVars, bindings, drmVars,
                 progressiveSources, loadPromise, promises,
                 audioEnabled, textVars>>

\* Html5.selectAudioTrack (a no-op without an Adapter), which only delegates
\* to NativeAdapter.selectAudioTrack: a direct call is the same step.
SelectAudioTrack(track) ==
  /\ IF hasAdapter /\ AudioTrackAccepted(track)
     THEN /\ audioEnabled' = OnlyTrack(track.index)
          /\ step' = [NoStep EXCEPT
               !.op = "selectAudioTrack", !.ok = TRUE, !.arg = track,
               !.memo = loadPromise,
               !.events = <<_onTrackChanged(track)>>]
     ELSE /\ step' = Rejected("selectAudioTrack")
          /\ UNCHANGED audioEnabled
  /\ quiet' = FALSE
  /\ UNCHANGED <<configVars, bindings, drmVars,
                 el, sourceObj, progressiveSources, loadPromise,
                 promises, listeners, videoSelected, textVars>>

-----------------------------------------------------------------------------
(* play, pause                                                             *)

\* Html5.play
Play ==
  /\ el' = ElPlay(el)
  /\ quiet' = FALSE
  /\ step' = [NoStep EXCEPT !.op = "play", !.memo = loadPromise,
                            !.facade = <<"play">>]
  /\ UNCHANGED <<configVars, bindings, drmVars,
                 sourceObj, progressiveSources, loadPromise,
                 promises, listeners, trackVars, textVars>>

\* Html5.pause
Pause ==
  /\ el' = ElPause(el)
  /\ quiet' = FALSE
  /\ step' = [NoStep EXCEPT !.op = "pause", !.memo = loadPromise,
                            !.facade = <<"pause">>]
  /\ UNCHANGED <<configVars, bindings, drmVars,
                 sourceObj, progressiveSources, loadPromise,
                 promises, listeners, trackVars, textVars>>

-----------------------------------------------------------------------------
(* destroy                                                                 *)

\* A variant of the teardown that does not look at _drmProtocol.
TeardownAlways(p) == <<"teardown">>

\* NativeAdapter.destroy: the protocol in _drmProtocol, if there is one, is
\* told to destroy itself.
Teardown(p) == IF p # 0 THEN <<"teardown">> ELSE <<>>

\* A variant of the release of the sink that leaves its src in place.
ReleasedKeepsSrc(e) == ElPause(e)

\* Html5.destroy on the sink: pause(), then removeAttribute('src').
Released(e) == [ElPause(e) EXCEPT !.src = NoUrl]

\* The lifecycle call handled last, if the last step was one.
Lifecycle ==
  IF step.op \in {"attach", "detach", "destroy"}
  THEN <<step.op, step.via>> ELSE <<>>

\* Html5.destroy through the Facade: detach, the Adapter is destroyed if
\* there is one, the sink paused and its src removed, the shown flags
\* cleared, the Facade's event manager destroyed.
\* NativeAdapter.destroy directly: the listeners, the load promise and the
\* variant list are dropped (the base class drops the bound source), and
\* the protocol in the static _drmProtocol, if any, is torn down and
\* unbound.
Destroy(via) ==
  /\ via = "adapter" => hasAdapter
  /\ IF hasAdapter
     THEN /\ sourceObj' = NoSource
          /\ listeners' = <<>>
          /\ loadPromise' = 0
          /\ progressiveSources' = <<>>
          /\ drmProtocol' = 0
          /\ drmPlayback' = [drmPlayback EXCEPT ![1] = 0]
     ELSE UNCHANGED <<sourceObj, listeners, loadPromise, progressiveSources,
                      drmVars>>
  /\ IF via = "facade"
     THEN /\ el' = Released(el)
          /\ showTextTrackFirstTime' = {}
          /\ activated' = {}
          /\ bindings' = NoBindings
     ELSE UNCHANGED <<el, showTextTrackFirstTime, activated, bindings>>
  /\ quiet' = FALSE
  /\ step' = [NoStep EXCEPT
       !.op = "destroy", !.via = via, !.ok = TRUE, !.memo = loadPromise,
       !.who = 1, !.drm = drmProtocol, !.prev = Lifecycle,
       !.calls = IF hasAdapter THEN Teardown(drmProtocol) ELSE <<>>,
       !.facade = IF via = "facade" THEN <<"pause">> ELSE <<>>]
  /\ UNCHANGED <<configVars, promises, trackVars, textMode, oncuechange,
                 cuePending>>

-----------------------------------------------------------------------------
(* Signals of the sink                                                     *)

\* The sink raises signal ev, its own state having become e: the Adapter's
\* listeners for ev run, in order, and are dropped.
Signal(ev, e) ==
  LET st == RunAll(Waiting(listeners, ev),
                   [el |-> e, promises |-> promises, added |-> <<>>,
                    events |-> <<>>, calls |-> <<>>, at |-> <<>>],
                   ParsedNow)
  IN  /\ el' = st.el
      /\ promises' = st.promises
      /\ listeners' = Others(listeners, ev) \o st.added
      /\ step' = [NoStep EXCEPT !.op = ev, !.memo = loadPromise,
                                !.fired = Waiting(listeners, ev),
                                !.events = st.events, !.calls = st.calls,
                                !.at = st.at]
      /\ UNCHANGED <<configVars, bindings, drmVars,
                     sourceObj, progressiveSources, loadPromise,
                     trackVars, textVars, quiet>>

\* loadeddata: the media set as src has loaded.
SinkLoadedData ==
  /\ el.network = "loading"
  /\ Signal("loadeddata", [el EXCEPT !.network = "loaded"])

\* error: the media set as src failed to load.
SinkError ==
  /\ el.network = "loading"
  /\ Signal("error", [el EXCEPT !.network = "error"])

\* durationchange: any time media is loading or loaded.  The Adapter only
\* listens for it during a switch on Android; raised at any other time it
\* reaches no listener and changes nothing, and is left out.
SinkDurationChange ==
  /\ el.network \in {"loading", "loaded"}
  /\ Waiting(listeners, "durationchange") # <<>>
  /\ Signal("durationchange", el)

\* seeked: the pending seek has completed.
SinkSeeked ==
  /\ el.seeking
  /\ Signal("seeked", [el EXCEPT !.seeking = FALSE])

\* Playback advances while the sink plays loaded media.
SinkTimeUpdate ==
  /\ el.network = "loaded" /\ ~el.paused /\ ~el.seeking
  /\ el.currentTime < MaxTime
  /\ el' = [el EXCEPT !.currentTime = @ + 1]
  /\ step' = [NoStep EXCEPT !.op = "timeupdate", !.memo = loadPromise]
  /\ UNCHANGED <<configVars, bindings, drmVars,
                 sourceObj, progressiveSources, loadPromise,
                 promises, listeners, trackVars, textVars, quiet>>

-----------------------------------------------------------------------------

Next ==
  \/ \E via \in Vias, startTime \in {0, MaxTime}, width, height \in 0..NumVariants :
       Load(via, startTime, width, height)
  \/ \E track \in VideoTrackArgs : SelectVideoTrack(track)
  \/ Play
  \/ Pause
  \/ \E via \in Vias : Destroy(via)
  \/ SinkLoadedData
  \/ SinkError
  \/ SinkDurationChange
  \/ SinkSeeked
  \/ SinkTimeUpdate

Spec == Init /\ [][Next]_vars

\* load and destroy with a sink that answers: after a platform load the
\* sink raises loadeddata or error, sooner or later (the media either loads
\* or fails to), so the two signals together are weakly fair.  The calls
\* themselves come whenever the application makes them, or never.
SettleInit ==
  /\ hasAdapter = TRUE
  /\ isAndroid = FALSE
  /\ useNativeTextTrack = FALSE
  /\ source \in {Variant(1), AdaptiveSource}
  /\ NoDrm
  /\ InitCommon

SettleNext ==
  \/ \E via \in Vias, startTime \in {0, MaxTime} : Load(via, startTime, 0, 0)
  \/ \E via \in Vias : Destroy(via)
  \/ \E track \in VideoTrackArgs : SelectVideoTrack(track)
  \/ SinkLoadedData
  \/ SinkError
  \/ SinkSeeked

SettleSpec ==
  /\ SettleInit
  /\ [][SettleNext]_vars
  /\ WF_vars(SinkLoadedData \/ SinkError)

\* Progressive video switches alone: selectVideoTrack calls in any order
\* and at any point of the signals of the switches before them, on an
\* Adapter constructed for a progressive source, the sink playing or not.
SwitchInit ==
  /\ hasAdapter = TRUE
  /\ isAndroid \in BOOLEAN
  /\ useNativeTextTrack = FALSE
  /\ source \in {Variant(i) : i \in 1..NumVariants}
  /\ NoDrm
  /\ InitCommon

SwitchNext ==
  \/ \E track \in VideoTrackArgs : SelectVideoTrack(track)
  \/ Play
  \/ SinkLoadedData
  \/ SinkDurationChange
  \/ SinkSeeked
  \/ SinkTimeUpdate

SwitchSpec == SwitchInit /\ [][SwitchNext]_vars

-----------------------------------------------------------------------------
(* Text tracks                                                             *)

\* Html5._getSelectedTextTrackElement: the first text track whose mode is
\* not "disabled" (-1 for null).
_getSelectedTextTrackElement(mode) ==
  LET on == {i \in DOMAIN mode : mode[i] # "disabled"}
  IN  IF on = {} THEN -1 ELSE CHOOSE i \in on : \A j \in on : i <= j

\* Html5._removeCueChangeListener: on the selected track, if there is one.
_removeCueChangeListener(t) ==
  LET textTrackEl == _getSelectedTextTrackElement(t.mode)
  IN  IF textTrackEl # -1
      THEN [t EXCEPT !.on = [@ EXCEPT ![textTrackEl] = FALSE]]
      ELSE t

\* A variant of _disableTextTracks that passes over the first track.
_disableTextTracksButFirst(mode) ==
  [i \in DOMAIN mode |-> IF i = 0 THEN mode[i] ELSE "disabled"]

\* NativeAdapter._disableTextTracks
_disableTextTracks(mode) == [i \in DOMAIN mode |-> "disabled"]

\* NativeAdapter.selectTextTrack: the guard
TextTrackAccepted(track) ==
  /\ track.type = "text"
  /\ track.kind \in {"subtitles", "captions"}
  /\ track.index \in 0..(NumTextTracks - 1)

\* NativeAdapter.selectTextTrack on t = [mode, on, shown, events]
AdapterSelectTextTrack(track, t) ==
  IF TextTrackAccepted(track)
  THEN [t EXCEPT !.mode = [_disableTextTracks(@) EXCEPT ![track.index] = "hidden"],
                 !.events = @ \o <<_onTrackChanged(track)>>]
  ELSE t

\* Html5._addCueChangeListener: on the selected track, if there is one; the
\* shown flag is read and set for the index of the track passed in.
_addCueChangeListener(track, t) ==
  LET textTrackEl == _getSelectedTextTrackElement(t.mode)
  IN  IF textTrackEl = -1 THEN t
      ELSE IF useNativeTextTrack
      THEN [t EXCEPT !.mode = [@ EXCEPT ![textTrackEl] = "showing"]]
      ELSE [t EXCEPT
              !.mode = [@ EXCEPT ![textTrackEl] =
                          IF track.index \in t.shown THEN "hidden" ELSE "showing"],
              !.shown = @ \cup {track.index},
              !.on = [@ EXCEPT ![textTrackEl] = TRUE]]

\* A variant of Html5.selectTextTrack that removes the old listener only
\* after the Adapter has switched.
FacadeSelectTextTrackLate(track, t) ==
  _addCueChangeListener(track,
    _removeCueChangeListener(
      IF hasAdapter THEN AdapterSelectTextTrack(track, t) ELSE t))

\* Html5.selectTextTrack: remove the listener, let the Adapter switch, add
\* a listener.
FacadeSelectTextTrack(track, t) ==
  _addCueChangeListener(track,
    IF hasAdapter
    THEN AdapterSelectTextTrack(track, _removeCueChangeListener(t))
    ELSE _removeCueChangeListener(t))

TextState ==
  [mode |-> textMode, on |-> oncuechange, shown |-> showTextTrackFirstTime,
   events |-> <<>>]

\* Html5.selectTextTrack through the Facade, NativeAdapter.selectTextTrack
\* directly.
SelectTextTrack(via, track) ==
  /\ via = "adapter" => hasAdapter
  /\ LET t == IF via = "facade" THEN FacadeSelectTextTrack(track, TextState)
              ELSE AdapterSelectTextTrack(track, TextState)
         ok == hasAdapter /\ TextTrackAccepted(track)
     IN  /\ textMode' = t.mode
         /\ oncuechange' = t.on
         /\ showTextTrackFirstTime' = t.shown
         /\ activated' = IF ok /\ via = "facade"
                         THEN activated \cup {track.index} ELSE activated
         /\ step' = [NoStep EXCEPT
              !.op = "selectTextTrack", !.via = via, !.ok = ok, !.arg = track,
              !.memo = loadPromise, !.events = t.events,
              !.sel = _getSelectedTextTrackElement(textMode),
              !.first = ok /\ via = "facade" /\ track.index \notin activated,
              !.shown = showTextTrackFirstTime,
              !.pre = IF ok THEN <<>> ELSE Snapshot]
  /\ UNCHANGED <<configVars, bindings, drmVars,
                 el, sourceObj, progressiveSources, loadPromise,
                 promises, listeners, trackVars, cuePending, quiet>>

\* Html5.hideTextTrack through the Facade (the Adapter's hideTextTrack if
\* there is an Adapter, then _removeCueChangeListener), and
\* NativeAdapter.hideTextTrack directly.
HideTextTrack(via) ==
  /\ via = "adapter" => hasAdapter
  /\ LET t1 == IF hasAdapter
               THEN [TextState EXCEPT !.mode = _disableTextTracks(@)]
               ELSE TextState
         t == IF via = "facade" THEN _removeCueChangeListener(t1) ELSE t1
     IN  /\ textMode' = t.mode
         /\ oncuechange' = t.on
         /\ step' = [NoStep EXCEPT
              !.op = "hideTextTrack", !.via = via, !.ok = hasAdapter,
              !.memo = loadPromise,
              !.sel = _getSelectedTextTrackElement(textMode),
              !.shown = showTextTrackFirstTime]
  /\ UNCHANGED <<configVars, bindings, drmVars,
                 el, sourceObj, progressiveSources, loadPromise,
                 promises, listeners, trackVars, showTextTrackFirstTime,
                 cuePending, activated, quiet>>

\* The cues the platform may report as active: of class VTTCue or of class
\* TextTrackCue only.
CueArgs ==
  {[shape |-> s, startTime |-> b, endTime |-> b + 1, text |-> <<"text", b>>] :
     s \in {"VTTCue", "TextTrackCue"}, b \in 0..MaxTime}

CueLists == UNION {[1..n -> CueArgs] : n \in 0..MaxCues}

\* A variant of the normalisation that passes on the VTTCues only.
NormalizedVTTOnly(cues) == SelectSeq(cues, LAMBDA cue : cue.shape = "VTTCue")

\* Html5._onCueChange: a VTTCue is passed on as it is, a TextTrackCue is
\* copied into a Cue.
RECURSIVE Normalized(_)
Normalized(cues) ==
  IF cues = <<>> THEN <<>>
  ELSE LET cue == Head(cues)
       IN  (IF cue.shape = "VTTCue" THEN <<cue>>
            ELSE IF cue.shape = "TextTrackCue"
            THEN <<[shape |-> "Cue", startTime |-> cue.startTime,
                    endTime |-> cue.endTime, text |-> cue.text]>>
            ELSE <<>>)
           \o Normalized(Tail(cues))

\* The platform queues a cuechange event for text track i: the set of
\* active cues of a track that is not disabled has changed.  The event is
\* dispatched by a later task, whatever has become of the track meanwhile.
SinkCueChangeQueued(i) ==
  /\ textMode[i] # "disabled"
  /\ ~cuePending[i]
  /\ cuePending' = [cuePending EXCEPT ![i] = TRUE]
  /\ step' = [NoStep EXCEPT
       !.op = "cuequeued", !.memo = loadPromise,
       !.arg = Track("text", i, TextKind(i)),
       !.sel = _getSelectedTextTrackElement(textMode),
       !.shown = showTextTrackFirstTime]
  /\ UNCHANGED <<configVars, bindings, drmVars,
                 el, sourceObj, progressiveSources, loadPromise,
                 promises, listeners, trackVars, textMode, oncuechange,
                 showTextTrackFirstTime, activated, quiet>>

\* Html5._onCueChange: the mode of the event's track becomes hidden.
_onCueChangeMode(mode, i) == [mode EXCEPT ![i] = "hidden"]

\* The queued cuechange event is dispatched on text track i, whose active
\* cues are then `cues`: Html5._onCueChange runs if it is the track's
\* oncuechange handler at that time.
SinkCueChange(i, cues) ==
  /\ cuePending[i]
  /\ cuePending' = [cuePending EXCEPT ![i] = FALSE]
  /\ textMode' = IF oncuechange[i] THEN _onCueChangeMode(textMode, i)
                 ELSE textMode
  /\ step' = [NoStep EXCEPT
       !.op = "cuechange", !.memo = loadPromise, !.ok = oncuechange[i],
       !.arg = Track("text", i, TextKind(i)),
       !.out = cues,
       !.events = IF oncuechange[i]
                  THEN <<[type |-> "textcuechanged", cues |-> Normalized(cues)]>>
                  ELSE <<>>,
       !.sel = _getSelectedTextTrackElement(textMode),
       !.shown = showTextTrackFirstTime]
  /\ UNCHANGED <<configVars, bindings, drmVars,
                 el, sourceObj, progressiveSources, loadPromise,
                 promises, listeners, trackVars, oncuechange,
                 showTextTrackFirstTime, activated, quiet>>

TextInit ==
  /\ hasAdapter \in BOOLEAN
  /\ isAndroid = FALSE
  /\ useNativeTextTrack \in BOOLEAN
  /\ source = AdaptiveSource
  /\ NoDrm
  /\ InitCommon

TextNext ==
  \/ \E via \in Vias, track \in TextTrackArgs : SelectTextTrack(via, track)
  \/ \E via \in Vias : HideTextTrack(via)
  \/ \E i \in 0..(NumTextTracks - 1) : SinkCueChangeQueued(i)
  \/ \E i \in 0..(NumTextTracks - 1), cues \in CueLists : SinkCueChange(i, cues)
  \/ \E via \in Vias : Destroy(via)

TextSpec == TextInit /\ [][TextNext]_vars

-----------------------------------------------------------------------------
(* The life of the engine: attach, detach, destroy                         *)

\* Html5.attach
Attach ==
  /\ \A ev \in FacadeEvents : bindings[ev] < MaxBindings
  /\ bindings' = attach(bindings)
  /\ step' = [NoStep EXCEPT !.op = "attach", !.via = "facade",
                            !.memo = loadPromise, !.prev = Lifecycle]
  /\ UNCHANGED <<configVars, drmVars, el, sourceObj, progressiveSources,
                 loadPromise, promises, listeners, trackVars, textVars, quiet>>

\* Html5.detach
Detach ==
  /\ bindings' = detach(bindings)
  /\ step' = [NoStep EXCEPT !.op = "detach", !.via = "facade",
                            !.memo = loadPromise]
  /\ UNCHANGED <<configVars, drmVars, el, sourceObj, progressiveSources,
                 loadPromise, promises, listeners, trackVars, textVars, quiet>>

\* The sink raises lifecycle signal ev, or the Adapter emits event ev: every
\* listener the Facade holds for ev re-dispatches it.
Occur(ev) ==
  /\ ev \in AdapterEvents => hasAdapter
  /\ step' = [NoStep EXCEPT !.op = "event", !.memo = loadPromise,
                            !.ev = ev, !.times = bindings[ev]]
  /\ UNCHANGED <<configVars, bindings, drmVars, el, sourceObj,
                 progressiveSources, loadPromise, promises, listeners,
                 trackVars, textVars, quiet>>

\* The engine is constructed for a progressive source, with or without an
\* Adapter; canPlayDrm may have bound a protocol for it before.
LifeInit ==
  /\ hasAdapter \in BOOLEAN
  /\ isAndroid = FALSE
  /\ useNativeTextTrack = FALSE
  /\ source = Variant(1)
  /\ drmProtocol \in 0..NumProtocols
  /\ drmPlayback = [a \in Adapters |->
                      IF a = 1 /\ hasAdapter THEN drmProtocol ELSE 0]
  /\ InitCommon

LifeNext ==
  \/ Attach
  \/ Detach
  \/ \E via \in Vias : Destroy(via)
  \/ \E ev \in FacadeEvents : Occur(ev)
  \/ \E via \in Vias, width \in 0..NumVariants : Load(via, 0, width, width)
  \/ Play
  \/ \E i \in 0..(NumTextTracks - 1) :
       SelectTextTrack("facade", Track("text", i, "subtitles"))

LifeSpec == LifeInit /\ [][LifeNext]_vars

-----------------------------------------------------------------------------
(* The static capability probes and the DRM protocol                       *)

\* What a collaborator's probe may do: answer yes or no, or throw.
Outcomes == {"yes", "no", "throw"}

\* What each protocol of _drmProtocols does when asked canPlayDrm(drmData).
Supports == [1..NumProtocols -> Outcomes]

\* NativeAdapter.canPlayDrm from protocol k on, `bound` being _drmProtocol:
\* the first protocol that answers yes is bound and the result is true; a
\* protocol that throws ends the call with its exception; if none answers
\* yes the result is false and _drmProtocol is left as it was.
RECURSIVE canPlayDrm(_, _, _)
canPlayDrm(support, k, bound) ==
  IF k > NumProtocols THEN [ret |-> "false", protocol |-> bound]
  ELSE IF support[k] = "throw" THEN [ret |-> "throw", protocol |-> bound]
  ELSE IF support[k] = "yes" THEN [ret |-> "true", protocol |-> k]
  ELSE canPlayDrm(support, k + 1, bound)

\* NativeAdapter.canPlayDrm, called to probe the source of session a.
CanPlayDrm(a, support) ==
  LET r == canPlayDrm(support, 1, drmProtocol)
  IN  /\ drmProtocol' = r.protocol
      /\ step' = [NoStep EXCEPT !.op = "canPlayDrm", !.who = a,
                                !.memo = loadPromise, !.drm = drmProtocol,
                                !.support = support, !.out = <<r.ret>>]
      /\ UNCHANGED <<configVars, bindings, drmPlayback, el, sourceObj,
                     progressiveSources, loadPromise, promises, listeners,
                     trackVars, textVars, quiet>>

\* The mime types asked about: strings, in some letter case, and a value
\* that is not a string.
MimeTypes ==
  {[string |-> TRUE, text |-> "video/mp4"],
   [string |-> TRUE, text |-> "Video/MP4"],
   [string |-> FALSE, text |-> ""]}

\* String.prototype.toLowerCase on the mime types above.
toLowerCase(text) == IF text = "Video/MP4" THEN "video/mp4" ELSE text

\* What TEST_VIDEO.canPlayType may do.
Answers == {"", "maybe", "probably", "throw"}

\* NativeAdapter.canPlayType, the platform answering `answer` for the
\* lower-cased mime type.
canPlayType(mimeType, preferNative, answer) ==
  IF mimeType.string
  THEN IF answer = "throw" THEN "throw"
       ELSE IF answer # "" /\ preferNative THEN "true" ELSE "false"
  ELSE "false"

CanPlayType(mimeType, preferNative, answer) ==
  /\ step' = [NoStep EXCEPT
       !.op = "canPlayType", !.memo = loadPromise,
       !.arg = Track(IF mimeType.string THEN toLowerCase(mimeType.text)
                     ELSE "", 0, answer),
       !.ok = preferNative,
       !.out = <<canPlayType(mimeType, preferNative, answer)>>]
  /\ UNCHANGED <<configVars, bindings, drmVars, el, sourceObj,
                 progressiveSources, loadPromise, promises, listeners,
                 trackVars, textVars, quiet>>

\* NativeAdapter.constructor for a further Adapter a, whose source has
\* drmData: _maybeSetDrmPlayback sets its playback up with the protocol in
\* the static _drmProtocol, if there is one.
CreateAdapter(a) ==
  /\ a # 1
  /\ drmPlayback[a] = 0
  /\ drmPlayback' = [drmPlayback EXCEPT ![a] = drmProtocol]
  /\ step' = [NoStep EXCEPT !.op = "createAdapter", !.who = a,
                            !.memo = loadPromise, !.drm = drmProtocol]
  /\ UNCHANGED <<configVars, bindings, drmProtocol, el, sourceObj,
                 progressiveSources, loadPromise, promises, listeners,
                 trackVars, textVars, quiet>>

\* NativeAdapter.destroy on a further Adapter a: its effect on the static
\* _drmProtocol.
DestroyAdapter(a) ==
  /\ a # 1
  /\ drmProtocol' = 0
  /\ drmPlayback' = [drmPlayback EXCEPT ![a] = 0]
  /\ step' = [NoStep EXCEPT !.op = "destroy", !.via = "adapter", !.ok = TRUE,
                            !.who = a, !.memo = loadPromise,
                            !.drm = drmProtocol,
                            !.calls = Teardown(drmProtocol)]
  /\ UNCHANGED <<configVars, bindings, el, sourceObj, progressiveSources,
                 loadPromise, promises, listeners, trackVars, textVars, quiet>>

\* The engine's Adapter is constructed after canPlayDrm may have bound a
\* protocol for its source.
DrmInit ==
  /\ hasAdapter = TRUE
  /\ isAndroid = FALSE
  /\ useNativeTextTrack = FALSE
  /\ source = AdaptiveSource
  /\ drmProtocol \in 0..NumProtocols
  /\ drmPlayback = [a \in Adapters |-> IF a = 1 THEN drmProtocol ELSE 0]
  /\ InitCommon

DrmNext ==
  \/ \E a \in Adapters, support \in Supports : CanPlayDrm(a, support)
  \/ \E mimeType \in MimeTypes, preferNative \in BOOLEAN, answer \in Answers :
       CanPlayType(mimeType, preferNative, answer)
  \/ \E a \in Adapters : CreateAdapter(a)
  \/ \E a \in Adapters : DestroyAdapter(a)
  \/ \E via \in Vias : Destroy(via)

DrmSpec == DrmInit /\ [][DrmNext]_vars

-----------------------------------------------------------------------------
(* Queries, the live edge, and the Facade without an Adapter               *)

\* NativeAdapter.isLive
isLive(e) == e.duration = Infinity

\* A variant of _getLiveEdge that takes the end of the first range.
_getLiveEdgeFirstRange(e) ==
  IF Len(e.seekable) # 0 THEN Finite(e.seekable[1].end)
  ELSE IF Len(e.buffered) # 0 THEN Finite(e.buffered[1].end)
  ELSE e.duration

\* NativeAdapter._getLiveEdge
_getLiveEdge(e) ==
  IF Len(e.seekable) # 0 THEN Finite(e.seekable[Len(e.seekable)].end)
  ELSE IF Len(e.buffered) # 0 THEN Finite(e.buffered[Len(e.buffered)].end)
  ELSE e.duration

\* BaseMediaSourceAdapter's duration getter: the sink's raw duration.
superDuration(e) == e.duration

\* NativeAdapter's duration getter
duration(e) == IF isLive(e) THEN _getLiveEdge(e) ELSE superDuration(e)

Queries ==
  {"isLive", "isAdaptiveBitrateEnabled", "currentTime", "src", "duration",
   "_getLiveEdge"}

\* The Adapter's getters and predicates.
AdapterQuery(name) ==
  CASE name = "isLive" -> isLive(el)
    [] name = "isAdaptiveBitrateEnabled" -> ~_isProgressivePlayback(sourceObj)
    [] name = "currentTime" -> el.currentTime
    [] name = "src" -> el.src
    [] name = "duration" -> duration(el)
    [] name = "_getLiveEdge" -> _getLiveEdge(el)

\* A variant of the Facade's getters that reads src from the sink itself.
FacadeQuerySinkSrc(name) ==
  IF hasAdapter \/ name = "src" THEN AdapterQuery(name)
  ELSE CASE name = "isLive" -> FALSE
         [] name = "isAdaptiveBitrateEnabled" -> FALSE
         [] name = "currentTime" -> 0
         [] name = "duration" -> NaN

\* The Facade's getters and predicates: the Adapter's if there is one, a
\* default otherwise.
FacadeQuery(name) ==
  IF hasAdapter THEN AdapterQuery(name)
  ELSE CASE name = "isLive" -> FALSE
         [] name = "isAdaptiveBitrateEnabled" -> FALSE
         [] name = "currentTime" -> 0
         [] name = "src" -> NoUrl
         [] name = "duration" -> NaN

\* isLive(), isAdaptiveBitrateEnabled(), and the getters currentTime, src
\* and duration, on the Facade or on the Adapter; _getLiveEdge on the
\* Adapter.
Query(via, name) ==
  /\ via = "adapter" => hasAdapter
  /\ via = "facade" => name # "_getLiveEdge"
  /\ step' = [NoStep EXCEPT
       !.op = "query", !.via = via, !.ev = name, !.memo = loadPromise,
       !.out = <<IF via = "facade" THEN FacadeQuery(name)
                 ELSE AdapterQuery(name)>>]
  /\ UNCHANGED <<configVars, bindings, drmVars, el, sourceObj,
                 progressiveSources, loadPromise, promises, listeners,
                 trackVars, textVars, quiet>>

\* Html5.seekToLiveEdge (a no-op without an Adapter) and
\* NativeAdapter.seekToLiveEdge: the live edge is written to currentTime; a
\* value that is not finite makes the sink throw, which is swallowed.
SeekToLiveEdge(via) ==
  /\ via = "adapter" => hasAdapter
  /\ LET edge == _getLiveEdge(el)
         seek == hasAdapter /\ ~edge.nan /\ ~edge.unbounded
     IN  /\ el' = IF seek THEN ElSetCurrentTime(el, edge.secs) ELSE el
         /\ step' = [NoStep EXCEPT
              !.op = "seekToLiveEdge", !.via = via, !.ok = seek,
              !.memo = loadPromise,
              !.calls = IF hasAdapter THEN <<"seek">> ELSE <<>>]
  /\ quiet' = FALSE
  /\ UNCHANGED <<configVars, bindings, drmVars, sourceObj,
                 progressiveSources, loadPromise, promises, listeners,
                 trackVars, textVars>>

\* Html5.enableAdaptiveBitrate (a no-op without an Adapter) and
\* NativeAdapter.enableAdaptiveBitrate, which only logs a warning.
EnableAdaptiveBitrate(via) ==
  /\ via = "adapter" => hasAdapter
  /\ step' = [NoStep EXCEPT !.op = "enableAdaptiveBitrate", !.via = via,
                            !.memo = loadPromise]
  /\ UNCHANGED <<configVars, bindings, drmVars, el, sourceObj,
                 progressiveSources, loadPromise, promises, listeners,
                 trackVars, textVars, quiet>>

\* Html5's src setter: written to the sink, Adapter or not.
SetSrc(url) ==
  /\ el' = ElSetSrc(el, url)
  /\ quiet' = FALSE
  /\ step' = [NoStep EXCEPT !.op = "setSrc", !.via = "facade",
                            !.memo = loadPromise, !.facade = <<"src">>]
  /\ UNCHANGED <<configVars, bindings, drmVars, sourceObj,
                 progressiveSources, loadPromise, promises, listeners,
                 trackVars, textVars>>

\* The sink learns the duration and the ranges of the media it was given.
SinkMetadata(d, seekable, buffered) ==
  /\ el.network # "empty"
  /\ el' = [el EXCEPT !.duration = d, !.seekable = seekable,
                      !.buffered = buffered]
  /\ step' = [NoStep EXCEPT !.op = "metadata", !.memo = loadPromise]
  /\ UNCHANGED <<configVars, bindings, drmVars, sourceObj,
                 progressiveSources, loadPromise, promises, listeners,
                 trackVars, textVars, quiet>>

\* The durations the sink may come to report.
Durations == {Infinity, Finite(MaxTime)}

FacadeInit ==
  /\ hasAdapter \in BOOLEAN
  /\ isAndroid = FALSE
  /\ useNativeTextTrack = FALSE
  /\ source = AdaptiveSource
  /\ NoDrm
  /\ InitCommon

\* The calls that delegate to the Adapter, on an engine with or without
\* one, whose sink may have been given a live source directly.
FacadeNext ==
  \/ \E via \in Vias, name \in Queries : Query(via, name)
  \/ \E via \in Vias : SeekToLiveEdge(via)
  \/ \E via \in Vias : EnableAdaptiveBitrate(via)
  \/ SetSrc(Url(1))
  \/ SinkMetadata(Infinity, <<Range(0, MaxTime)>>, <<>>)
  \/ \E via \in Vias : Load(via, 0, 0, 0)
  \/ Play
  \/ SinkLoadedData
  \/ \E track \in VideoTrackArgs : SelectVideoTrack(track)
  \/ \E track \in AudioTrackArgs : SelectAudioTrack(track)
  \/ \E via \in Vias : HideTextTrack(via)

FacadeSpec == FacadeInit /\ [][FacadeNext]_vars

LiveInit ==
  /\ hasAdapter = TRUE
  /\ isAndroid = FALSE
  /\ useNativeTextTrack = FALSE
  /\ source = AdaptiveSource
  /\ NoDrm
  /\ InitCommon

\* The Adapter's view of a sink whose duration and ranges change.
LiveNext ==
  \/ \E name \in Queries : Query("adapter", name)
  \/ \E via \in Vias : SeekToLiveEdge(via)
  \/ \E d \in Durations, seekable, buffered \in RangeLists :
       SinkMetadata(d, seekable, buffered)
  \/ \E via \in Vias : Load(via, 0, 0, 0)
  \/ SinkLoadedData

LiveSpec == LiveInit /\ [][LiveNext]_vars

-----------------------------------------------------------------------------
(* Properties of load and of the progressive video switch, under Spec.     *)

\* The listeners a signal step ran whose callback is one of fns.
Fired(fns) == {i \in 1..Len(step.fired) : step.fired[i].fn \in fns}

\* The step completed a progressive switch: a seeked callback of
\* _selectProgressiveVideoTrack ran and emitted video-track-changed.
Completed == {i \in Fired({"changed", "changedQuirk"}) : step.op = "seeked"}

\* C1: every load() on an Adapter returns the memoized handle: the first call
\* creates the handle and makes the Adapter call the sink's load() once; a
\* call made while a handle is held returns that same handle, leaves it in
\* place and makes no sink call at all; nothing but destroy() drops the
\* handle, and the Adapter calls the sink's load() in no other step.
C1_LoadMemoized ==
  /\ (step.op = "load" /\ step.ok) =>
       /\ step.ret = loadPromise
       /\ loadPromise \in DOMAIN promises
       /\ step.memo # 0 => step.ret = step.memo /\ step.calls = <<>>
       /\ step.memo = 0 => /\ Count(step.calls, "load") = 1
                           /\ step.ret = Len(promises)
  /\ (step.op # "destroy" /\ step.memo # 0) => loadPromise = step.memo
  /\ step.op # "load" => Count(step.calls, "load") = 0

\* C1 witness: a load() call that found a pending handle and returned it.
C1_Witness ==
  /\ step.op = "load" /\ step.memo # 0 /\ step.ret = step.memo
  /\ promises[step.ret].state = "pending"

\* C2: a load handle settles once.  If error comes while it is pending it
\* rejects with the error, if loadeddata comes while it is pending it
\* resolves with the tracks enumerated then; once settled it never changes,
\* whatever signal or call follows, and a later load() (without destroy)
\* returns the same handle and makes no sink call.
C2_SettledForGood ==
  [][\A h \in DOMAIN promises :
       /\ promises[h].state # "pending" => promises'[h] = promises[h]
       /\ ( /\ promises[h].state = "pending"
            /\ step'.op = "error"
            /\ \E i \in 1..Len(listeners) :
                 listeners[i].fn = "reject" /\ listeners[i].h = h )
          => promises'[h] = [state |-> "rejected", value |-> <<"error">>]
       /\ ( /\ promises[h].state = "pending"
            /\ step'.op = "loadeddata"
            /\ \E i \in 1..Len(listeners) :
                 listeners[i].fn = "resolve" /\ listeners[i].h = h )
          => /\ promises'[h].state = "resolved"
             /\ promises'[h].value = ParsedNow
       /\ (loadPromise = h /\ promises[h].state # "pending" /\ step'.op = "load")
          => step'.ret = h /\ loadPromise' = h /\ step'.calls = <<>>
    ]_vars

\* C2 witness: loadeddata ran the resolve callback of a handle that error
\* had already rejected, and the handle is still rejected.
C2_Witness ==
  /\ step.op = "loadeddata"
  /\ \E i \in Fired({"resolve"}) : promises[step.fired[i].h].state = "rejected"

C4_NoPlayPauseBeforeSeeked ==
  (Count(step.calls, "play") + Count(step.calls, "pause") > 0)
    => step.op = "seeked"

\* C4 amended: the Adapter calls pause() only while handling seeked (on
\* Android, when the switch began paused); play() it calls while handling
\* loadeddata, before seeked: always on Android, elsewhere right after the
\* seek when the switch began playing.
C4_RestoreOrder ==
  /\ Count(step.calls, "pause") > 0 => step.op = "seeked" /\ isAndroid
  /\ Count(step.calls, "play") > 0 => step.op = "loadeddata"
  /\ (quiet /\ step.op = "loadeddata") =>
       \A i \in Fired({"switch"}) :
         step.calls = IF isAndroid THEN <<"play">>
                      ELSE IF step.fired[i].paused THEN <<"seek">>
                      ELSE <<"seek", "play">>
  /\ quiet =>
       \A i \in Completed :
         step.calls = IF isAndroid /\ step.fired[i].paused
                      THEN <<"pause">> ELSE <<>>

\* C4 witness: an undisturbed switch that began playing has had its
\* loadeddata handled off Android: the seek was issued and play() called,
\* with seeked still to come.
C4_Witness ==
  /\ quiet /\ ~isAndroid /\ step.op = "loadeddata"
  /\ step.calls = <<"seek", "play">> /\ el.seeking

\* The sink is bound to the variant of track l.track, an enumeration reports
\* that track and no other as active, and the last position written is the
\* one captured when the switch began.
Restored(l) ==
  LET parsed == _getParsedVideoTracks(sourceObj, progressiveSources, videoSelected)
  IN  /\ (l.track.index + 1) \in DOMAIN progressiveSources
      /\ el.src = progressiveSources[l.track.index + 1].url
      /\ Len(parsed) = Len(progressiveSources)
      /\ \A j \in 1..Len(parsed) : parsed[j].active <=> (j - 1 = l.track.index)
      /\ el.written = l.time

VideoPart(value) == SelectSeq(value, LAMBDA t : t.type = "video")

OnePerVariant(value, bound) ==
  LET video == VideoPart(value)
  IN  /\ Len(video) = Len(progressiveSources)
      /\ \A j \in 1..Len(video) :
           /\ video[j].index = j - 1
           /\ video[j].active <=> (progressiveSources[j].id = bound.id)

\* The loadeddata step resolved these handles.
Resolved ==
  {step.fired[i].h : i \in {j \in Fired({"resolve"}) :
      step.op = "loadeddata" /\ promises[step.fired[j].h].state = "resolved"}}

\* C6 as claimed: for an Adapter constructed with a progressive source s,
\* load() resolves with one video track per variant, in order, the active
\* one being the variant with the id of s.
C6_ActiveIsInitialSource ==
  (_isProgressivePlayback(source) /\ _isProgressivePlayback(sourceObj)) =>
    \A h \in Resolved : OnePerVariant(promises[h].value, source)

\* C6 amended: load() on a progressive source first rebinds the Adapter to
\* the variant the resolution rule picks for the sink's width and height
\* (when there is one), and it resolves with one video track per variant,
\* in order, the active one being the variant bound when loadeddata is
\* handled.
C6_ActiveIsBoundSource ==
  /\ _isProgressivePlayback(sourceObj) =>
       \A h \in Resolved : OnePerVariant(promises[h].value, sourceObj)
  /\ ( /\ step.op = "load" /\ step.ok /\ step.memo = 0
       /\ _isProgressivePlayback(sourceObj)
       /\ progressiveSources # <<>> )
     => sourceObj = getSuitableSourceForResolution(progressiveSources,
                                                   step.width, step.height)

\* C6 witness: constructed with the first variant, load() has resolved with
\* the second variant active.
C6_Witness ==
  /\ source = Variant(1)
  /\ \E h \in Resolved : VideoPart(promises[h].value)[2].active

-----------------------------------------------------------------------------
(* Properties of the text tracks, under TextSpec.                          *)

SelectOps == {"selectVideoTrack", "selectAudioTrack", "selectTextTrack"}

\* C7: a select call whose track the Adapter does not accept (wrong class,
\* wrong kind for text, index out of range) emits nothing and leaves the
\* bound source, every track's selected/enabled/mode flag, the shown flags
\* and the cue-change subscriptions as they were before the call.
C7_InvalidSelectChangesNothing ==
  (step.op \in SelectOps /\ ~step.ok) =>
     /\ step.events = <<>>
     /\ step.pre = Snapshot

\* C8 as stated: after a text select through the Facade the track that was
\* selected before has no cue-change subscription (unless it is selected
\* again) and the track now selected has one.
C8_SubscriptionFollowsSelection ==
  (step.op = "selectTextTrack" /\ step.via = "facade") =>
     LET cur == _getSelectedTextTrackElement(textMode)
     IN  /\ (step.sel # -1 /\ step.sel # cur) => ~oncuechange[step.sel]
         /\ cur # -1 => oncuechange[cur]

\* C8, amended: after a text select through the Facade the track that was
\* selected before has no cue-change subscription (unless it is selected
\* again); the track now selected has one if native text rendering is
\* disabled, and with native rendering it is in showing mode and has none.
C8_SubscriptionFollowsSelectionUnlessNative ==
  (step.op = "selectTextTrack" /\ step.via = "facade") =>
     LET cur == _getSelectedTextTrackElement(textMode)
     IN  /\ (step.sel # -1 /\ step.sel # cur) => ~oncuechange[step.sel]
         /\ (cur # -1 /\ ~useNativeTextTrack) => oncuechange[cur]
         /\ (cur # -1 /\ useNativeTextTrack) =>
               textMode[cur] = "showing" /\ ~oncuechange[cur]

\* The Facade has switched from one text track to another, both with
\* subscriptions in their time.
C8_Witness ==
  /\ step.op = "selectTextTrack" /\ step.via = "facade" /\ step.ok
  /\ ~useNativeTextTrack
  /\ step.sel # -1 /\ step.sel # step.arg.index
  /\ oncuechange[step.arg.index] /\ ~oncuechange[step.sel]
  /\ step.events = <<_onTrackChanged(step.arg)>>

\* C9: with native rendering disabled, the first accepted activation of
\* text track K through the Facade leaves K in showing mode, every later
\* one leaves it in hidden mode, and K's shown flag, once set, stays set
\* until destroy.
C9_FirstActivationShows ==
  ~useNativeTextTrack =>
     /\ (step.op = "selectTextTrack" /\ step.via = "facade" /\ step.ok) =>
           /\ textMode[step.arg.index] =
                 IF step.first THEN "showing" ELSE "hidden"
           /\ step.arg.index \in showTextTrackFirstTime
     /\ step.op \in {"selectTextTrack", "hideTextTrack", "cuechange"} =>
           step.shown \subseteq showTextTrackFirstTime

\* C10: after hideTextTrack has reached the Adapter every text track of the
\* sink is in disabled mode.
C10_HideDisablesAll ==
  (step.op = "hideTextTrack" /\ hasAdapter) =>
     \A i \in DOMAIN textMode : textMode[i] = "disabled"

\* hideTextTrack has acted while a track other than the first was selected.
C10_Witness ==
  /\ step.op = "hideTextTrack" /\ hasAdapter
  /\ step.sel > 0
  /\ \A i \in DOMAIN textMode : textMode[i] = "disabled"


\* C11: at most one text track of the sink has a mode other than disabled,
\* in every state reached from all tracks disabled by selectTextTrack,
\* hideTextTrack and the handling of cue changes.
C11_AtMostOneActive ==
  Cardinality({i \in DOMAIN textMode : textMode[i] # "disabled"}) <= 1

\* C12: every cuechange dispatched to the Facade's handler emits exactly one
\* text-cue-changed event, whose cue list has one entry per cue active on
\* the track at that moment, in order, each with the startTime, endTime and
\* text of its platform cue, whichever of the two platform classes it is.
C12_OneEventAllCues ==
  (step.op = "cuechange" /\ step.ok) =>
     /\ Len(step.events) = 1
     /\ step.events[1].type = "textcuechanged"
     /\ LET cues == step.events[1].cues
        IN  /\ Len(cues) = Len(step.out)
            /\ \A k \in 1..Len(cues) :
                 /\ cues[k].startTime = step.out[k].startTime
                 /\ cues[k].endTime = step.out[k].endTime
                 /\ cues[k].text = step.out[k].text

\* The handler has run with two active cues, one of each platform class.
C12_Witness ==
  /\ step.op = "cuechange" /\ step.ok
  /\ Len(step.out) = 2
  /\ step.out[1].shape = "TextTrackCue" /\ step.out[2].shape = "VTTCue"
  /\ step.out[1].startTime # step.out[2].startTime
  /\ Len(step.events[1].cues) = 2

-----------------------------------------------------------------------------
(* Properties of attach, detach and destroy, under LifeSpec.               *)

\* The events attach subscribes to on this engine.
Subscribed ==
  IF hasAdapter THEN FacadeEvents ELSE SinkEvents

\* C13: attach and detach are exact inverses.  After detach the Facade holds
\* no listener for any sink signal or any of the five Adapter events, so
\* none is re-dispatched; after an attach that follows a detach it holds
\* exactly one for each, so each occurrence is re-dispatched exactly once.
C13_AttachDetachInverse ==
  /\ step.op = "detach" => \A ev \in FacadeEvents : bindings[ev] = 0
  /\ (step.op = "attach" /\ step.prev = <<"detach", "facade">>) =>
        \A ev \in Subscribed : bindings[ev] = 1

\* Everything but `step`.
stateVars ==
  <<hasAdapter, isAndroid, useNativeTextTrack, source, el, sourceObj,
    progressiveSources, loadPromise, promises, listeners, videoSelected,
    audioEnabled, textMode, oncuechange, showTextTrackFirstTime, cuePending,
    bindings, drmProtocol, drmPlayback, activated, quiet>>

\* C14: Facade.destroy, with or without an Adapter, leaves the Facade
\* without listeners, the shown flags empty and the sink paused with its src
\* removed; a destroy called right after a destroy changes nothing and
\* calls no teardown.
C14_DestroyIdempotent ==
  /\ [](step.op = "destroy" /\ step.via = "facade" =>
          /\ bindings = NoBindings
          /\ showTextTrackFirstTime = {}
          /\ el.src = NoUrl /\ el.paused)
  /\ [][( /\ step.op = "destroy" /\ step.via = "facade"
          /\ step'.op = "destroy" /\ step'.via = "facade" )
        => UNCHANGED stateVars /\ step'.calls = <<>>]_vars

\* destroy has been called a second time on an engine that had been loaded
\* and had a protocol bound.
C14_Witness ==
  /\ step.op = "destroy" /\ step.via = "facade"
  /\ step.prev = <<"destroy", "facade">>
  /\ promises # <<>>

\* C15: the Adapter's destroy leaves it without listeners, with an empty
\* variant list and no load handle, and tears down the bound protocol: once
\* if one was bound, not at all otherwise, after which none is bound.  A
\* destroy of the Adapter right after a destroy tears nothing down and
\* changes nothing.
C15_AdapterDestroy ==
  /\ []((step.op = "destroy" /\ hasAdapter) =>
          /\ listeners = <<>>
          /\ progressiveSources = <<>>
          /\ loadPromise = 0
          /\ drmProtocol = 0
          /\ step.calls = IF step.drm # 0 THEN <<"teardown">> ELSE <<>>)
  /\ [][( /\ step.op = "destroy" /\ hasAdapter
          /\ step'.op = "destroy" /\ step'.via = "adapter" )
        => UNCHANGED stateVars /\ step'.calls = <<>>]_vars

\* The Adapter has been destroyed while its load was pending and a protocol
\* was bound.
C15_Witness ==
  /\ step.op = "destroy" /\ step.via = "adapter"
  /\ step.memo # 0 /\ promises[step.memo].state = "pending"
  /\ step.drm # 0 /\ step.calls = <<"teardown">>
  /\ listeners = <<>>

-----------------------------------------------------------------------------
(* Properties of the capability probes and of the DRM protocol, under      *)
(* DrmSpec.                                                                *)

\* The protocols that answer yes.
Supporting(support) == {k \in DOMAIN support : support[k] = "yes"}

\* C16: canPlayDrm (no protocol throwing) returns true iff some protocol of
\* the registry supports the data; if true, the bound protocol is the first
\* that does; if false, no protocol is bound after the call.
C16_FirstMatchOrNone ==
  (step.op = "canPlayDrm" /\ \A k \in DOMAIN step.support :
                                step.support[k] # "throw") =>
     LET yes == Supporting(step.support)
     IN  /\ step.out = <<IF yes # {} THEN "true" ELSE "false">>
         /\ yes # {} => /\ drmProtocol \in yes
                        /\ \A k \in yes : drmProtocol <= k
         /\ yes = {} => drmProtocol = 0

\* C17: the probes never throw.  canPlayType returns true only if the
\* platform reports support and preferNative is set, and false if the mime
\* type is not a string or the platform's probe fails; canPlayDrm returns
\* false if a protocol's support check fails.
C17_ProbesNeverThrow ==
  /\ step.op = "canPlayType" =>
       /\ step.out # <<"throw">>
       /\ step.out = <<"true">> =>
            step.arg.kind \in {"maybe", "probably"} /\ step.ok
       /\ (step.arg.type = "" \/ step.arg.kind = "throw") =>
            step.out = <<"false">>
  /\ step.op = "canPlayDrm" => step.out # <<"throw">>

\* C20: the bound protocol belongs to one session.  While an Adapter whose
\* playback was set up with a protocol is alive, that protocol stays the
\* bound one, and no other session's destroy tears it down.
C20_ProtocolPerSession ==
  \A b \in Adapters :
     drmPlayback[b] # 0 =>
        /\ drmProtocol = drmPlayback[b]
        /\ (step.op = "destroy" /\ step.who # b) => step.calls = <<>>

-----------------------------------------------------------------------------
(* Properties of the Facade without an Adapter, under FacadeSpec, and of   *)
(* the live edge, under LiveSpec.                                          *)

\* The calls of the Facade that delegate to the Adapter.
DelegatingOps ==
  {"selectVideoTrack", "selectAudioTrack", "hideTextTrack", "seekToLiveEdge",
   "enableAdaptiveBitrate", "load", "query"}

\* The program's state but for the sink.
offSinkVars ==
  <<hasAdapter, isAndroid, useNativeTextTrack, source, sourceObj,
    progressiveSources, loadPromise, promises, listeners, videoSelected,
    audioEnabled, textMode, oncuechange, showTextTrackFirstTime, cuePending,
    bindings, drmProtocol, drmPlayback>>

\* What the calls return without an Adapter: load() a promise resolved at
\* once (no handle of the Adapter), isLive() and isAdaptiveBitrateEnabled()
\* false, currentTime 0 and src the empty string.
Defaults(st) ==
  /\ st.op = "load" => st.ret = -1
  /\ (st.op = "query" /\ st.ev \in {"isLive", "isAdaptiveBitrateEnabled"}) =>
        st.out = <<FALSE>>
  /\ (st.op = "query" /\ st.ev = "currentTime") => st.out = <<0>>
  /\ (st.op = "query" /\ st.ev = "src") => st.out = <<NoUrl>>

\* C18 as stated: without an Adapter every delegating call of the Facade
\* returns its default and changes no state.
C18_NoAdapterNoChange ==
  [][(~hasAdapter /\ step'.op \in DelegatingOps) =>
        /\ Defaults(step')
        /\ UNCHANGED <<offSinkVars, el>>]_vars

\* C18, amended: without an Adapter every delegating call of the Facade
\* returns its default and changes no state, except that load() calls the
\* sink's load(), which restarts whatever source the sink was given.
C18_NoAdapterDefaults ==
  [][(~hasAdapter /\ step'.op \in DelegatingOps) =>
        /\ Defaults(step')
        /\ UNCHANGED offSinkVars
        /\ el' = IF step'.op = "load" THEN ElLoad(el) ELSE el]_vars

\* Without an Adapter, load() has resolved at once and restarted the source
\* set on the sink through the Facade's src setter.
C18_Witness ==
  /\ ~hasAdapter
  /\ step.op = "load" /\ step.ret = -1
  /\ el.src # NoUrl /\ el.network = "loading" /\ el.paused

\* The end of the last seekable range, else of the last buffered range,
\* else the duration.
Edge ==
  IF el.seekable # <<>> THEN Finite(el.seekable[Len(el.seekable)].end)
  ELSE IF el.buffered # <<>> THEN Finite(el.buffered[Len(el.buffered)].end)
  ELSE el.duration

\* C19: isLive() is true iff the sink's duration is unbounded; the live edge
\* is the end of the last seekable range if there is one, else the end of
\* the last buffered range if there is one, else the duration; the
\* Adapter's duration is the live edge when live and the sink's duration
\* otherwise.
C19_LiveEdge ==
  (step.op = "query" /\ step.via = "adapter") =>
     /\ step.ev = "isLive" => step.out = <<el.duration.unbounded>>
     /\ step.ev = "_getLiveEdge" => step.out = <<Edge>>
     /\ step.ev = "duration" =>
          step.out = <<IF el.duration.unbounded THEN Edge ELSE el.duration>>

\* The duration of a live stream with two seekable ranges has been read.
C19_Witness ==
  /\ step.op = "query" /\ step.via = "adapter" /\ step.ev = "duration"
  /\ el.duration = Infinity
  /\ Len(el.seekable) = 2 /\ el.buffered # <<>>
  /\ step.out = <<Finite(MaxTime)>>

-----------------------------------------------------------------------------
(* The order of a progressive switch, and what is left of it after         *)
(* destroy, under Spec.                                                    *)

\* The step is an accepted progressive selectVideoTrack.
SwitchBegun ==
  step.op = "selectVideoTrack" /\ step.ok /\ step.calls # <<>>

\* The types of the events a step emitted.
Emitted(type) == {i \in 1..Len(step.events) : step.events[i].type = type}

\* C21: a progressive selectVideoTrack follows a fixed order.  The call
\* itself only rebinds the sink's URL and emits nothing.  The Adapter seeks
\* (load's start position apart) only while handling loadeddata off Android
\* and only while handling durationchange on Android, and the listeners
\* that seek and that emit are registered in no step but the handling of
\* loadeddata, so the durationchange and the seeked that count come after
\* it.  video-track-changed for a progressive source is emitted only while
\* handling seeked.  An undisturbed switch seeks to the position captured
\* at the call, emits exactly one video-track-changed, for the track of the
\* call, when its seeked is handled, and leaves no listener behind that
\* could emit another.
C21_SwitchOrder ==
  /\ [](/\ SwitchBegun => step.calls = <<"src">> /\ step.events = <<>>
        /\ (Count(step.calls, "seek") > 0 /\ step.op # "load") =>
              IF isAndroid
              THEN step.op = "durationchange" /\ Fired({"seek"}) # {}
              ELSE step.op = "loadeddata" /\ Fired({"switch"}) # {}
        /\ (Emitted("videotrackchanged") # {} /\ step.op # "selectVideoTrack") =>
              step.op = "seeked" /\ Fired({"changed", "changedQuirk"}) # {}
        /\ (step.op = "selectVideoTrack" /\ Emitted("videotrackchanged") # {}) =>
              ~SwitchBegun
        /\ (quiet /\ Count(step.calls, "seek") > 0) =>
              \A i \in Fired({"switch", "seek"}) : el.written = step.fired[i].time
        /\ quiet =>
              \A i \in Completed :
                /\ step.events = <<_onTrackChanged(step.fired[i].track)>>
                /\ ~SwitchPending)
  /\ [][\A i \in 1..Len(listeners') :
          (listeners'[i].fn \in {"seek", "changed", "changedQuirk"}
             /\ Count(listeners', listeners'[i]) > Count(listeners, listeners'[i]))
          => step'.op = "loadeddata"]_vars

\* C21 witness: on Android an undisturbed switch has run its whole course:
\* the seeked that followed durationchange and loadeddata emitted the one
\* event, and no listener of the switch is left.
C21_Witness ==
  /\ quiet /\ isAndroid /\ step.op = "seeked" /\ ~SwitchPending
  /\ \E i \in Completed :
       /\ step.fired[i].fn = "changedQuirk"
       /\ step.events = <<_onTrackChanged(step.fired[i].track)>>
       /\ el.written = step.fired[i].time

\* C22: at the moment a progressive switch emits video-track-changed the
\* sink's paused flag equals the flag captured when selectVideoTrack was
\* called, on Android as elsewhere (stated for a switch that ran
\* undisturbed).
C22_RestoredAtEmission ==
  quiet => \A i \in Completed :
             \A k \in 1..Len(step.at) : step.at[k] = step.fired[i].paused

-----------------------------------------------------------------------------
(* Adaptive video and audio selection, under FacadeSpec.                   *)

\* C23: an accepted selectVideoTrack on an adaptive source, and an accepted
\* selectAudioTrack, is complete when the call returns: the platform track
\* at the requested index is the only one with its selected (enabled) flag
\* set, exactly one video-track-changed (audio-track-changed) event was
\* emitted, carrying the requested track, no listener was registered, and
\* the call changed nothing of the sink: not its position, not its paused
\* flag.
C23_SynchronousSelection ==
  /\ []((step.op \in {"selectVideoTrack", "selectAudioTrack"} /\ step.ok
         /\ ~_isProgressivePlayback(sourceObj)) =>
          /\ step.op = "selectVideoTrack" =>
               /\ \A j \in DOMAIN videoSelected :
                    videoSelected[j] <=> (j = step.arg.index)
               /\ step.events = <<Event("videotrackchanged", step.arg)>>
          /\ step.op = "selectAudioTrack" =>
               /\ \A j \in DOMAIN audioEnabled :
                    audioEnabled[j] <=> (j = step.arg.index)
               /\ step.events = <<Event("audiotrackchanged", step.arg)>>
          /\ step.calls = <<>>
          /\ ~SwitchPending)
  /\ [][(step'.op \in {"selectVideoTrack", "selectAudioTrack"}
         /\ ~_isProgressivePlayback(sourceObj))
        => el' = el /\ listeners' = listeners]_vars

\* C23 witness: with the sink playing, the second audio track was selected
\* after the second video track: each is the only one of its list set.
C23_Witness ==
  /\ step.op = "selectAudioTrack" /\ step.ok /\ step.arg.index = 1
  /\ ~el.paused
  /\ audioEnabled[1] /\ ~audioEnabled[0]
  /\ videoSelected[1] /\ ~videoSelected[0]

-----------------------------------------------------------------------------
(* Further properties of the text tracks, under TextSpec.                  *)

\* The text tracks that carry a cue-change subscription.
CueSubscribed == {i \in DOMAIN oncuechange : oncuechange[i]}

\* C24: at most one text track carries a cue-change subscription, and only
\* a track whose mode is not disabled; after hideTextTrack through the
\* Facade no track carries one.
C24_SubscriptionOnlyOnActive ==
  /\ Cardinality(CueSubscribed) <= 1
  /\ \A i \in CueSubscribed : textMode[i] # "disabled"
  /\ (step.op = "hideTextTrack" /\ step.via = "facade") => CueSubscribed = {}

\* C25: the shown flags are truthful.  Only selectTextTrack records an
\* index as shown, and every index a call newly records is the index of a
\* track that call left in showing mode: it never records K while it
\* changes the mode of another track.  (Hence a track recorded as shown has
\* been in showing mode since the engine was constructed.)
C25_ShownIsTruthful ==
  /\ step.op = "selectTextTrack" =>
       \A K \in showTextTrackFirstTime \ step.shown :
         K \in DOMAIN textMode /\ textMode[K] = "showing"
  /\ step.op \in {"hideTextTrack", "cuequeued", "cuechange"} =>
       showTextTrackFirstTime \subseteq step.shown

-----------------------------------------------------------------------------
(* Overlapping progressive switches, under SwitchSpec.                     *)

\* C26: whatever the order of progressive selectVideoTrack calls, one made
\* while an earlier switch still waits for loadeddata or seeked included,
\* every video-track-changed event carries the track of the variant bound
\* to the sink when it is emitted: the sink's src is that variant's URL and
\* an enumeration reports that track as active.
C26_EventCarriesBoundTrack ==
  \A k \in Emitted("videotrackchanged") :
    LET index == step.events[k].track.index
        parsed == _getParsedVideoTracks(sourceObj, progressiveSources,
                                        videoSelected)
    IN  /\ (index + 1) \in DOMAIN progressiveSources
        /\ el.src = progressiveSources[index + 1].url
        /\ parsed[index + 1].active

\* Html5.destroy has run and the Facade has not selected a text track since:
\* its event manager holds no listener (of the actions of TextSpec only
\* destroy through the Facade changes the bindings) and it has activated no
\* track.
Destroyed == bindings = NoBindings /\ activated = {}

\* C27: once the Facade is destroyed no signal of the sink makes it
\* dispatch an event to the application; in particular a cuechange
\* dispatched on a text track, active now or earlier, produces no
\* text-cue-changed, and no listener of the Adapter is left to write to the
\* sink.
C27_SilentAfterDestroy ==
  Destroyed =>
    /\ step.op = "cuechange" => step.events = <<>>
    /\ hasAdapter => listeners = <<>>

-----------------------------------------------------------------------------
(* Settling of the load handles, under SettleSpec.                         *)

\* C28: every handle load() has returned settles in the end, resolved or
\* rejected, given that the sink raises loadeddata or error after each
\* platform load; a handle that is pending when the Adapter is destroyed
\* included.
C28_EveryHandleSettles ==
  \A h \in 1..MaxHandles :
    (h \in DOMAIN promises)
      ~> (h \in DOMAIN promises /\ promises[h].state # "pending")

-----------------------------------------------------------------------------
(* load through the Facade, under Spec.                                    *)

\* How many times the step called the sink's load(), the Facade and the
\* Adapter taken together.
PlatformLoads == Count(step.facade, "load") + Count(step.calls, "load")

\* C29: on an engine with an Adapter, load() calls through the Facade
\* trigger the sink's load once in total: the first call triggers it once,
\* and a call made while the handle is pending or after it has settled
\* returns that handle and does not trigger it again.
C29_FacadeLoadsOnce ==
  (step.op = "load" /\ step.via = "facade" /\ hasAdapter) =>
     /\ step.ret = loadPromise
     /\ step.memo = 0 => PlatformLoads = 1
     /\ step.memo # 0 => step.ret = step.memo /\ PlatformLoads = 0

-----------------------------------------------------------------------------
(* Enumeration of the text tracks, under TextSpec.                         *)

\* C30: an enumeration reports text track i as active exactly when i is
\* selected, that is when its mode is not disabled: after an accepted
\* selectTextTrack and after a cue change as at any other time.
C30_EnumerationAgrees ==
  LET parsed == _getParsedTextTracks(textMode)
  IN  \A i \in DOMAIN textMode :
        parsed[i + 1].active <=> (textMode[i] # "disabled")

====
